---- MODULE Spec2Model ----
(***************************************************************************)
(* A model of dynamic_pybloom/pybloom.py: the BloomFilter bit-vector       *)
(* filter and the ScalableBloomFilter / DynamicBloomFilter orchestrators.  *)
(*                                                                         *)
(* Floats.  An error rate is a rational <<num, den>>; math.log is a        *)
(* fixed-point series (unit 1/LnScale).  The configurations the            *)
(* specifications draw from are ones on which this arithmetic gives the    *)
(* same num_slices and bits_per_slice as the floating-point code.          *)
(*                                                                         *)
(* Digests.  make_hashfuncs feeds the key to a salted cryptographic        *)
(* digest and unpacks it into unsigned words; only those words reach the   *)
(* filter.  A key is therefore identified with its digest words: a pair    *)
(* <<a, b>> of words in 0..MaxUint, word i of the digest being a for even  *)
(* i and b for odd i.  Every assignment of such digests to keys is covered *)
(* by quantifying over all pairs.                                          *)
(***************************************************************************)
EXTENDS Integers, Sequences, FiniteSets, TLC

\* ------------------------------------------------------------------ bounds

\* Digest words range over 0..MaxUint.
MaxUint == 1

\* ---------------------------------------------------------- float arithmetic

\* Fixed-point unit of the logarithms.
LnScale == 10000
\* math.log(2) and math.log(2) ** 2 in units of 1/LnScale.
Ln2Scaled == 6931
Ln2SqScaled == 4805
\* Number of terms of the atanh series of LnMantissa.
LnTerms == 6

RECURSIVE Pow2(_)
Pow2(n) == IF n = 0 THEN 1 ELSE 2 * Pow2(n - 1)

CeilDiv(a, b) == (a + b - 1) \div b

\* e = <<num, den>>; the comparisons and products of the rationals.
RatLt(x, y) == x[1] * y[2] < y[1] * x[2]
RatEq(x, y) == x[1] * y[2] = y[1] * x[2]
RatMul(x, y) == <<x[1] * y[1], x[2] * y[2]>>
RatOneMinus(x) == <<x[2] - x[1], x[2]>>
RatZero == <<0, 1>>
RatOne == <<1, 1>>

\* floor(log2(1/e)) for 0 < e <= 1.
RECURSIVE FloorLog2Inv(_, _)
FloorLog2Inv(e, n) ==
    IF e[1] * Pow2(n + 1) > e[2] THEN n ELSE FloorLog2Inv(e, n + 1)

\* math.ceil(math.log(1.0 / e, 2)) for 0 < e < 1.
CeilLog2Inv(e) ==
    LET n == FloorLog2Inv(e, 0)
    IN  IF e[1] * Pow2(n) = e[2] THEN n ELSE n + 1

\* sum over j < terms of z^(2j+1) / (2j+1), z and the result in 1/LnScale.
RECURSIVE AtanhSeries(_, _, _)
AtanhSeries(zpow, zsq, j) ==
    IF j >= LnTerms \/ zpow = 0 THEN 0
    ELSE (zpow \div (2 * j + 1))
         + AtanhSeries((zpow * zsq) \div LnScale, zsq, j + 1)

\* abs(math.log(e)) in units of 1/LnScale, for 0 < e <= 1:
\* 1/e = 2^n * m with 1 <= m < 2, ln(1/e) = n ln 2 + 2 atanh((m-1)/(m+1)).
LnInv(e) ==
    LET n == FloorLog2Inv(e, 0)
        p == e[2] - e[1] * Pow2(n)
        q == e[2] + e[1] * Pow2(n)
        z == IF p <= 200000 THEN (p * LnScale) \div q
             ELSE p \div (q \div LnScale)
        zsq == (z * z) \div LnScale
    IN  n * Ln2Scaled + 2 * AtanhSeries(z, zsq, 0)

\* ------------------------------------------------------------- keys

\* A key, as the filters see it: its digest words <<a, b>>.
Keys == (0..MaxUint) \X (0..MaxUint)

\* A key whose digest a specification does not track: it yields no bit
\* positions, and the answer of a membership scan for it is an input.
OpaqueKey == <<>>

\* make_hashfuncs._make_hashfuncs: the i-th unsigned word unpacked from the
\* salted digests of the key (i counted from 0).
DigestWord(key, i) == IF i % 2 = 0 THEN key[1] ELSE key[2]

\* ------------------------------------------------------- BloomFilter

\* BloomFilter.__init__: num_slices.
NumSlices(error_rate) == CeilLog2Inv(error_rate)

\* BloomFilter.__init__: bits_per_slice.
BitsPerSlice(capacity, error_rate) ==
    CeilDiv(capacity * LnInv(error_rate),
            NumSlices(error_rate) * Ln2SqScaled)

\* bitarray.bitarray(n) after setall(False): n bits, the set ones of the
\* indices (from 0) of the bits that are set.
NewBitarray(n) == [len |-> n, ones |-> {}]

\* BloomFilter.__init__ raises ValueError.
BloomFilter_init_raises(capacity, error_rate) ==
    \/ ~(RatLt(RatZero, error_rate) /\ RatLt(error_rate, RatOne))
    \/ ~(capacity > 0)

\* BloomFilter._setup.
BloomFilter_setup(error_rate, num_slices, bits_per_slice, capacity, count) ==
    [error_rate |-> error_rate,
     num_slices |-> num_slices,
     bits_per_slice |-> bits_per_slice,
     capacity |-> capacity,
     count |-> count,
     num_bits |-> num_slices * bits_per_slice]

\* BloomFilter.__init__, when it does not raise.
BloomFilter_init(capacity, error_rate) ==
    LET f == BloomFilter_setup(error_rate, NumSlices(error_rate),
                               BitsPerSlice(capacity, error_rate), capacity, 0)
    IN  [error_rate |-> f.error_rate,
         num_slices |-> f.num_slices,
         bits_per_slice |-> f.bits_per_slice,
         capacity |-> f.capacity,
         count |-> f.count,
         num_bits |-> f.num_bits,
         bitarray |-> NewBitarray(f.num_bits)]

\* self.make_hashes(key): the num_slices positions the generator yields,
\* uint % num_bits with num_bits = bits_per_slice.
make_hashes(f, key) ==
    IF key = OpaqueKey THEN <<>>
    ELSE [i \in 1..f.num_slices |-> DigestWord(key, i - 1) % f.bits_per_slice]

\* The loop of BloomFilter.__contains__ from the i-th hash on.
RECURSIVE contains_loop(_, _, _, _, _)
contains_loop(bitarray, hashes, i, offset, bits_per_slice) ==
    IF i > Len(hashes) THEN TRUE
    ELSE IF ~((offset + hashes[i]) \in bitarray.ones) THEN FALSE
    ELSE contains_loop(bitarray, hashes, i + 1, offset + bits_per_slice,
                       bits_per_slice)

\* BloomFilter.__contains__.
BloomFilter_contains(f, key) ==
    contains_loop(f.bitarray, make_hashes(f, key), 1, 0, f.bits_per_slice)

\* Mutant of add_loop: the offset is never advanced to the next slice.
RECURSIVE add_loop_no_offset(_, _, _, _, _, _, _)
add_loop_no_offset(bitarray, hashes, i, offset, found_all_bits, skip_check, bits_per_slice) ==
    IF i > Len(hashes)
    THEN [bitarray |-> bitarray, found_all_bits |-> found_all_bits]
    ELSE add_loop_no_offset(
            [bitarray EXCEPT !.ones = @ \cup {offset + hashes[i]}],
            hashes, i + 1, offset,
            IF ~skip_check /\ found_all_bits
                  /\ ~((offset + hashes[i]) \in bitarray.ones)
            THEN FALSE ELSE found_all_bits,
            skip_check, bits_per_slice)

\* Mutant of add_loop: found_all_bits reports the last slice only.
RECURSIVE add_loop_last_slice(_, _, _, _, _, _, _)
add_loop_last_slice(bitarray, hashes, i, offset, found_all_bits, skip_check, bits_per_slice) ==
    IF i > Len(hashes)
    THEN [bitarray |-> bitarray, found_all_bits |-> found_all_bits]
    ELSE add_loop_last_slice(
            [bitarray EXCEPT !.ones = @ \cup {offset + hashes[i]}],
            hashes, i + 1, offset + bits_per_slice,
            skip_check \/ (offset + hashes[i]) \in bitarray.ones,
            skip_check, bits_per_slice)

\* The loop of BloomFilter.add from the i-th hash on: the bit vector and
\* found_all_bits when it ends.
RECURSIVE add_loop(_, _, _, _, _, _, _)
add_loop(bitarray, hashes, i, offset, found_all_bits, skip_check, bits_per_slice) ==
    IF i > Len(hashes)
    THEN [bitarray |-> bitarray, found_all_bits |-> found_all_bits]
    ELSE add_loop(
            [bitarray EXCEPT !.ones = @ \cup {offset + hashes[i]}],
            hashes, i + 1, offset + bits_per_slice,
            IF ~skip_check /\ found_all_bits
                  /\ ~((offset + hashes[i]) \in bitarray.ones)
            THEN FALSE ELSE found_all_bits,
            skip_check, bits_per_slice)

\* Mutant of BloomFilter_add: the capacity check is count >= capacity.
BloomFilter_add_early_check(f, key, skip_check) ==
    IF f.count >= f.capacity
    THEN [filter |-> f, ret |-> "IndexError"]
    ELSE LET r == add_loop(f.bitarray, make_hashes(f, key), 1, 0, TRUE,
                           skip_check, f.bits_per_slice)
         IN  IF skip_check
             THEN [filter |-> [f EXCEPT !.bitarray = r.bitarray,
                                        !.count = @ + 1],
                   ret |-> "False"]
             ELSE IF ~r.found_all_bits
             THEN [filter |-> [f EXCEPT !.bitarray = r.bitarray,
                                        !.count = @ + 1],
                   ret |-> "False"]
             ELSE [filter |-> [f EXCEPT !.bitarray = r.bitarray],
                   ret |-> "True"]

\* Mutant of BloomFilter_add: the capacity check comes after the bits are set.
BloomFilter_add_late_check(f, key, skip_check) ==
    LET r == add_loop(f.bitarray, make_hashes(f, key), 1, 0, TRUE,
                      skip_check, f.bits_per_slice)
    IN  IF f.count > f.capacity
        THEN [filter |-> [f EXCEPT !.bitarray = r.bitarray], ret |-> "IndexError"]
        ELSE IF skip_check \/ ~r.found_all_bits
        THEN [filter |-> [f EXCEPT !.bitarray = r.bitarray, !.count = @ + 1],
              ret |-> "False"]
        ELSE [filter |-> [f EXCEPT !.bitarray = r.bitarray], ret |-> "True"]

\* BloomFilter.add: the filter afterwards and what the call returned
\* ("True", "False") or raised ("IndexError").
BloomFilter_add(f, key, skip_check) ==
    IF f.count > f.capacity
    THEN [filter |-> f, ret |-> "IndexError"]
    ELSE LET r == add_loop(f.bitarray, make_hashes(f, key), 1, 0, TRUE,
                           skip_check, f.bits_per_slice)
         IN  IF skip_check
             THEN [filter |-> [f EXCEPT !.bitarray = r.bitarray,
                                        !.count = @ + 1],
                   ret |-> "False"]
             ELSE IF ~r.found_all_bits
             THEN [filter |-> [f EXCEPT !.bitarray = r.bitarray,
                                        !.count = @ + 1],
                   ret |-> "False"]
             ELSE [filter |-> [f EXCEPT !.bitarray = r.bitarray],
                   ret |-> "True"]

\* ----------------------------------------------- ScalableBloomFilter

SMALL_SET_GROWTH == 2
LARGE_SET_GROWTH == 4

\* The ratio ScalableBloomFilter.__init__ passes to _setup: 0.9.
TighteningRatio == <<9, 10>>

\* ScalableBloomFilter.__init__ raises ValueError.
ScalableBloomFilter_init_raises(initial_capacity, error_rate, mode) ==
    RatEq(error_rate, RatZero) \/ RatLt(error_rate, RatZero)

\* ScalableBloomFilter.__init__ (with _setup), when it does not raise.
ScalableBloomFilter_init(initial_capacity, error_rate, mode) ==
    [class |-> "ScalableBloomFilter",
     scale |-> mode,
     ratio |-> TighteningRatio,
     initial_capacity |-> initial_capacity,
     error_rate |-> error_rate,
     filters |-> <<>>]

\* Mutant of ScalableBloomFilter_contains_loop: only the newest sub-filter
\* is tested.
ScalableBloomFilter_contains_newest(filters, i, key) ==
    i >= 1 /\ BloomFilter_contains(filters[i], key)

\* The loop of ScalableBloomFilter.__contains__ over reversed(self.filters),
\* from the i-th filter downward.
RECURSIVE ScalableBloomFilter_contains_loop(_, _, _)
ScalableBloomFilter_contains_loop(filters, i, key) ==
    IF i < 1 THEN FALSE
    ELSE IF BloomFilter_contains(filters[i], key) THEN TRUE
    ELSE ScalableBloomFilter_contains_loop(filters, i - 1, key)

\* ScalableBloomFilter.__contains__.
ScalableBloomFilter_contains(s, key) ==
    ScalableBloomFilter_contains_loop(s.filters, Len(s.filters), key)

\* The end of both orchestrators' add: filter.add(key, skip_check=True) on
\* the last of `filters`, and return False unless that call raised.
add_to_last(s, filters, key) ==
    LET r == BloomFilter_add(filters[Len(filters)], key, TRUE)
    IN  [orch |-> [s EXCEPT !.filters = [filters EXCEPT ![Len(filters)] = r.filter]],
         ret |-> IF r.ret = "IndexError" THEN "IndexError" ELSE "False"]

\* Mutant of ScalableBloomFilter_add_given: a sub-filter is appended only
\* once the last one is over its capacity (> for >=).
ScalableBloomFilter_add_given_late(s, key, member) ==
    IF member THEN [orch |-> s, ret |-> "True"]
    ELSE IF s.filters = <<>>
    THEN add_to_last(s,
             <<BloomFilter_init(s.initial_capacity,
                                RatMul(s.error_rate, RatOneMinus(s.ratio)))>>,
             key)
    ELSE LET filter == s.filters[Len(s.filters)]
         IN  IF filter.count > filter.capacity
             THEN add_to_last(s,
                      Append(s.filters,
                             BloomFilter_init(filter.capacity * s.scale,
                                              RatMul(filter.error_rate, s.ratio))),
                      key)
             ELSE add_to_last(s, s.filters, key)

\* Mutant of ScalableBloomFilter_add_given: every sub-filter appended has
\* the initial capacity.
ScalableBloomFilter_add_given_fixed(s, key, member) ==
    IF member THEN [orch |-> s, ret |-> "True"]
    ELSE IF s.filters = <<>>
    THEN add_to_last(s,
             <<BloomFilter_init(s.initial_capacity,
                                RatMul(s.error_rate, RatOneMinus(s.ratio)))>>,
             key)
    ELSE LET filter == s.filters[Len(s.filters)]
         IN  IF filter.count >= filter.capacity
             THEN add_to_last(s,
                      Append(s.filters,
                             BloomFilter_init(s.initial_capacity,
                                              RatMul(filter.error_rate, s.ratio))),
                      key)
             ELSE add_to_last(s, s.filters, key)

\* ScalableBloomFilter.add after `key in self` answered `member`: the
\* orchestrator afterwards and what the call returned or raised.
ScalableBloomFilter_add_given(s, key, member) ==
    IF member THEN [orch |-> s, ret |-> "True"]
    ELSE IF s.filters = <<>>
    THEN LET error_rate == RatMul(s.error_rate, RatOneMinus(s.ratio))
         IN  IF BloomFilter_init_raises(s.initial_capacity, error_rate)
             THEN [orch |-> s, ret |-> "ValueError"]
             ELSE add_to_last(s,
                      <<BloomFilter_init(s.initial_capacity, error_rate)>>, key)
    ELSE LET filter == s.filters[Len(s.filters)]
         IN  IF filter.count >= filter.capacity
             THEN LET capacity == filter.capacity * s.scale
                      error_rate == RatMul(filter.error_rate, s.ratio)
                  IN  IF BloomFilter_init_raises(capacity, error_rate)
                      THEN [orch |-> s, ret |-> "ValueError"]
                      ELSE add_to_last(s,
                               Append(s.filters,
                                      BloomFilter_init(capacity, error_rate)),
                               key)
             ELSE add_to_last(s, s.filters, key)

\* Mutant of ScalableBloomFilter_add: no membership test before routing.
ScalableBloomFilter_add_unchecked(s, key) ==
    ScalableBloomFilter_add_given(s, key, FALSE)

\* ScalableBloomFilter.add.
ScalableBloomFilter_add(s, key) ==
    ScalableBloomFilter_add_given(s, key, ScalableBloomFilter_contains(s, key))

\* ------------------------------------------------ DynamicBloomFilter

\* Fixed-point unit of the individual error rate.
RateScale == 1000

RECURSIVE Pow(_, _)
Pow(x, n) == IF n = 0 THEN 1 ELSE x * Pow(x, n - 1)

\* DynamicBloomFilter._setup: 1 - exp(log(1 - error_rate) / n), that is
\* 1 - (1 - error_rate)^(1/n).  For n <= 3 the root is searched and rounded
\* down to a multiple of 1/RateScale.  For larger n, with
\* x = abs(log(1 - error_rate)) / n, the value is x (1 - x/2 + x^2/6) as a
\* rational of denominator n * LnScale.
IndividualErrorRate(error_rate, n) ==
    LET fits(r) == Pow(RateScale - r, n) * error_rate[2]
                      >= (error_rate[2] - error_rate[1]) * Pow(RateScale, n)
        l == LnInv(RatOneMinus(error_rate))
        x == l \div n
        corr == LnScale - (x \div 2) + (((x * x) \div LnScale) \div 6)
    IN  IF n <= 3
        THEN <<CHOOSE r \in 0..RateScale :
                   fits(r) /\ (r = RateScale \/ ~fits(r + 1)),
               RateScale>>
        ELSE <<((l * corr) \div LnScale) \div 10, n * (LnScale \div 10)>>

\* math.ceil(max_capacity / base_capacity) for base_capacity # 0.
CeilQuotient(max_capacity, base_capacity) ==
    IF base_capacity > 0
    THEN IF max_capacity >= 0 THEN CeilDiv(max_capacity, base_capacity)
         ELSE -((-max_capacity) \div base_capacity)
    ELSE IF max_capacity >= 0 THEN -(max_capacity \div (-base_capacity))
         ELSE CeilDiv(-max_capacity, -base_capacity)

\* The exception DynamicBloomFilter.__init__ raises, "None" when it returns:
\* ValueError from its own check or from math.log(1 - error_rate),
\* ZeroDivisionError from max_capacity/base_capacity or from the division
\* by its ceiling.
DynamicBloomFilter_init_exception(base_capacity, max_capacity, error_rate) ==
    IF RatEq(error_rate, RatZero) \/ RatLt(error_rate, RatZero)
    THEN "ValueError"
    ELSE IF base_capacity = 0 THEN "ZeroDivisionError"
    ELSE IF ~RatLt(error_rate, RatOne) THEN "ValueError"
    ELSE IF CeilQuotient(max_capacity, base_capacity) = 0
    THEN "ZeroDivisionError"
    ELSE "None"

\* DynamicBloomFilter.__init__ raises.
DynamicBloomFilter_init_raises(base_capacity, max_capacity, error_rate) ==
    DynamicBloomFilter_init_exception(base_capacity, max_capacity, error_rate)
        # "None"

\* DynamicBloomFilter._setup: individual_error_rate.  A negative quotient n
\* gives 1 - 1 / (1 - error_rate)^(1/-n), a negative rate.
DynamicBloomFilter_individual_error_rate(base_capacity, max_capacity, error_rate) ==
    LET n == CeilQuotient(max_capacity, base_capacity)
        r == IndividualErrorRate(error_rate, IF n > 0 THEN n ELSE -n)
    IN  IF n > 0 THEN r ELSE <<-r[1], r[2] - r[1]>>

\* DynamicBloomFilter.__init__ (with _setup), when it does not raise.
DynamicBloomFilter_init(base_capacity, max_capacity, error_rate) ==
    [class |-> "DynamicBloomFilter",
     individual_error_rate |->
         DynamicBloomFilter_individual_error_rate(base_capacity, max_capacity,
                                                  error_rate),
     max_error_rate |-> error_rate,
     max_capacity |-> max_capacity,
     base_capacity |-> base_capacity,
     filters |-> <<>>]

\* The loop of DynamicBloomFilter.__contains__ over reversed(self.filters),
\* from the i-th filter downward.
RECURSIVE DynamicBloomFilter_contains_loop(_, _, _)
DynamicBloomFilter_contains_loop(filters, i, key) ==
    IF i < 1 THEN FALSE
    ELSE IF BloomFilter_contains(filters[i], key) THEN TRUE
    ELSE DynamicBloomFilter_contains_loop(filters, i - 1, key)

\* DynamicBloomFilter.__contains__.
DynamicBloomFilter_contains(d, key) ==
    DynamicBloomFilter_contains_loop(d.filters, Len(d.filters), key)

\* Mutant of DynamicBloomFilter_add_given: a sub-filter is appended only once
\* the last one is over its capacity (> for >=).
DynamicBloomFilter_add_given_late(d, key, member) ==
    IF member THEN [orch |-> d, ret |-> "True"]
    ELSE IF d.filters = <<>>
    THEN add_to_last(d, <<BloomFilter_init(d.base_capacity,
                                           d.individual_error_rate)>>, key)
    ELSE LET filter == d.filters[Len(d.filters)]
         IN  IF filter.count > filter.capacity
             THEN add_to_last(d,
                      Append(d.filters,
                             BloomFilter_init(d.base_capacity,
                                              d.individual_error_rate)),
                      key)
             ELSE add_to_last(d, d.filters, key)

\* DynamicBloomFilter.add after `key in self` answered `member`.
DynamicBloomFilter_add_given(d, key, member) ==
    IF member THEN [orch |-> d, ret |-> "True"]
    ELSE IF BloomFilter_init_raises(d.base_capacity, d.individual_error_rate)
            /\ (d.filters = <<>>
                \/ d.filters[Len(d.filters)].count
                      >= d.filters[Len(d.filters)].capacity)
    THEN [orch |-> d, ret |-> "ValueError"]
    ELSE IF d.filters = <<>>
    THEN add_to_last(d, <<BloomFilter_init(d.base_capacity,
                                           d.individual_error_rate)>>, key)
    ELSE LET filter == d.filters[Len(d.filters)]
         IN  IF filter.count >= filter.capacity
             THEN add_to_last(d,
                      Append(d.filters,
                             BloomFilter_init(d.base_capacity,
                                              d.individual_error_rate)),
                      key)
             ELSE add_to_last(d, d.filters, key)

\* DynamicBloomFilter.add.
DynamicBloomFilter_add(d, key) ==
    DynamicBloomFilter_add_given(d, key, DynamicBloomFilter_contains(d, key))

\* __contains__, add, capacity and __len__ of either orchestrator.
Orch_contains(o, key) ==
    IF o.class = "ScalableBloomFilter"
    THEN ScalableBloomFilter_contains(o, key)
    ELSE DynamicBloomFilter_contains(o, key)

Orch_add(o, key) ==
    IF o.class = "ScalableBloomFilter"
    THEN ScalableBloomFilter_add(o, key)
    ELSE DynamicBloomFilter_add(o, key)

RECURSIVE SumCapacity(_, _)
SumCapacity(filters, i) ==
    IF i > Len(filters) THEN 0
    ELSE filters[i].capacity + SumCapacity(filters, i + 1)

RECURSIVE SumCount(_, _)
SumCount(filters, i) ==
    IF i > Len(filters) THEN 0
    ELSE filters[i].count + SumCount(filters, i + 1)

\* Mutant of Orch_capacity: the capacity of the newest sub-filter alone.
Orch_capacity_newest(o) ==
    IF o.filters = <<>> THEN 0 ELSE o.filters[Len(o.filters)].capacity

\* ScalableBloomFilter.capacity, DynamicBloomFilter.capacity.
Orch_capacity(o) == SumCapacity(o.filters, 1)

\* ScalableBloomFilter.__len__, DynamicBloomFilter.__len__.
Orch_len(o) == SumCount(o.filters, 1)

\* ------------------------------------------------------------ state

VARIABLES
    bf,         \* a BloomFilter operated directly
    orch,       \* a ScalableBloomFilter or a DynamicBloomFilter
    raised,     \* some add call raised IndexError
    last,       \* the last call: op, its key and skip_check, and what it
                \* returned ("True", "False") or raised
    calls,      \* documented scenarios: the add calls made
    inserts,    \* documented scenarios: the add calls that returned False
    args,       \* the arguments of a constructor or fromfile call
    heap,       \* set operations: the objects, by identity
    result      \* set operations: the identity of the object returned

vars == <<bf, orch, raised, last, calls, inserts, args, heap, result>>

\* The capacities and error rates the filters are constructed with.
MaxCapacity == 2
Capacities == 1..MaxCapacity
ErrorRates == {<<6, 10>>, <<3, 10>>}

\* An orchestrator appends no sub-filter beyond MaxFilters.
MaxFilters == 2

\* The object a specification does not operate.
Absent == [class |-> "none"]

\* No arguments, no objects, no reference.
NoArgs == [class |-> "none"]
EmptyHeap == <<>>
None == "None"

NoCall == [op |-> "none", key |-> OpaqueKey, skip_check |-> FALSE, ret |-> "None"]

InitObservers ==
    /\ raised = FALSE
    /\ last = NoCall
    /\ calls = 0
    /\ inserts = 0
    /\ args = NoArgs
    /\ heap = EmptyHeap
    /\ result = None

\* ------------------------------------------- BloomFilter operated directly

Init ==
    /\ bf \in {BloomFilter_init(c, e) : c \in Capacities, e \in ErrorRates}
    /\ orch = Absent
    /\ InitObservers

\* bf.add(key, skip_check)
Add(key, skip_check) ==
    LET r == BloomFilter_add(bf, key, skip_check)
    IN  /\ bf' = r.filter
        /\ raised' = (raised \/ r.ret = "IndexError")
        /\ last' = [op |-> "add", key |-> key, skip_check |-> skip_check,
                    ret |-> r.ret]
        /\ UNCHANGED <<orch, calls, inserts, args, heap, result>>

Next == \E key \in Keys, skip_check \in BOOLEAN : Add(key, skip_check)

Spec == Init /\ [][Next]_vars

\* The absolute indices of the key's bits: slice i (from 0) holds its bit at
\* i * bits_per_slice + p_i.
KeyBits(f, key) ==
    {(i - 1) * f.bits_per_slice + make_hashes(f, key)[i] : i \in 1..f.num_slices}

\* All bits of the key are set in the filter.
IsMember(f, key) == KeyBits(f, key) \subseteq f.bitarray.ones

\* The last call was add(key) and it returned.
AddReturned(key) ==
    last.op = "add" /\ last.key = key /\ last.ret \in {"True", "False"}

\* C1: no false negatives in the base filter.  Once an add call given a key
\* has returned (in either mode), the key tests as a member in that state and
\* in every later state.
C1_NoFalseNegatives ==
    \A key \in Keys : [](AddReturned(key) => []BloomFilter_contains(bf, key))

\* Two different keys have been added, one of them in skip_check mode, and
\* the filter holds more bits than one key sets.
C1_Witness ==
    /\ AddReturned(last.key)
    /\ last.skip_check
    /\ bf.count >= 2
    /\ BloomFilter_contains(bf, last.key)
    /\ Cardinality(bf.bitarray.ones) > bf.num_slices

\* C2 (as claimed): while no add call has raised capacity-exceeded,
\* len(filter) <= capacity.
C2_LenWithinCapacity == ~raised => bf.count <= bf.capacity

\* C3 (as claimed): when add(key) is called twice in a row in
\* membership-checked mode, the first call returning, the second call returns
\* True and leaves count as the first call left it.
C3_Idempotent ==
    [][(/\ AddReturned(last.key) /\ ~last.skip_check
        /\ last'.op = "add" /\ last'.key = last.key /\ ~last'.skip_check)
       => (last'.ret = "True" /\ bf'.count = bf.count)]_vars

\* C4: the return/count rule of an add call that does not raise.  Checked
\* mode: it returns True exactly when all bits of the key were set before, and
\* count grows by one exactly when it returns False.  skip_check mode: it
\* returns False and count grows by one.  Both: afterwards the bits set are
\* those set before and the key's bits, and nothing else of the filter changed.
C4_ReturnCountRule ==
    [][(last'.op = "add" /\ last'.ret # "IndexError")
       => /\ last'.ret \in {"True", "False"}
          /\ ~last'.skip_check =>
                /\ (last'.ret = "True") <=> IsMember(bf, last'.key)
                /\ bf'.count = IF last'.ret = "False" THEN bf.count + 1
                               ELSE bf.count
          /\ last'.skip_check =>
                /\ last'.ret = "False"
                /\ bf'.count = bf.count + 1
          /\ bf'.bitarray.ones = bf.bitarray.ones \cup KeyBits(bf, last'.key)
          /\ bf' = [bf EXCEPT !.count = bf'.count,
                              !.bitarray.ones = bf'.bitarray.ones]]_vars

\* A checked add returned True for a key, and the filter holds the bits of
\* at least two keys.
C4_Witness ==
    /\ last.op = "add" /\ ~last.skip_check /\ last.ret = "True"
    /\ bf.count >= 2
    /\ bf.num_slices >= 2

\* C5: an add call raises capacity-exceeded exactly when count > capacity at
\* its entry, in either mode and also for a key that is a member, and then
\* the filter (bit vector and count) is as it was.
C5_CapacityExceeded ==
    [][last'.op = "add"
       => /\ (last'.ret = "IndexError") <=> (bf.count > bf.capacity)
          /\ last'.ret = "IndexError" => bf' = bf]_vars

\* An add call given a member key has raised, and one given a key that is
\* not a member could raise too.
C5_Witness ==
    /\ last.op = "add" /\ last.ret = "IndexError"
    /\ IsMember(bf, last.key)
    /\ \E key \in Keys : ~IsMember(bf, key)

\* C21: at most one insertion over the capacity.  An add call made when
\* count = capacity does not raise, an add call made when
\* count = capacity + 1 raises capacity-exceeded and leaves the filter as it
\* was, and count <= capacity + 1 after every add call, in either mode.
C21_OneOverCapacity ==
    [][last'.op = "add"
       => /\ bf.count = bf.capacity => last'.ret \in {"True", "False"}
          /\ bf.count = bf.capacity /\ last'.skip_check =>
                 bf'.count = bf.capacity + 1
          /\ bf.count = bf.capacity + 1 =>
                 last'.ret = "IndexError" /\ bf' = bf
          /\ bf.count <= bf.capacity + 1
          /\ bf'.count <= bf'.capacity + 1]_vars

\* The filter took one key over its capacity and the add call after that
\* raised.
C21_Witness ==
    /\ last.op = "add" /\ last.ret = "IndexError"
    /\ bf.count = bf.capacity + 1
    /\ bf.capacity >= 2

\* --------------------------------------------------- the orchestrators

ScalableConfigs ==
    {ScalableBloomFilter_init(c, <<9, 10>>, mode) :
        c \in Capacities, mode \in {SMALL_SET_GROWTH, LARGE_SET_GROWTH}}

DynamicConfigs ==
    {DynamicBloomFilter_init(c, m * c, e) :
        c \in Capacities, m \in {1, 2}, e \in {<<6, 10>>}}

InitOrch ==
    /\ bf = Absent
    /\ orch \in ScalableConfigs \cup DynamicConfigs
    /\ InitObservers

\* The call appends a sub-filter.
Appends(o, key) ==
    /\ ~Orch_contains(o, key)
    /\ \/ o.filters = <<>>
       \/ o.filters[Len(o.filters)].count >= o.filters[Len(o.filters)].capacity

\* orch.add(key)
OrchAdd(key) ==
    /\ Appends(orch, key) => Len(orch.filters) < MaxFilters
    /\ LET r == Orch_add(orch, key)
       IN  /\ orch' = r.orch
           /\ raised' = (raised \/ r.ret = "IndexError")
           /\ last' = [op |-> "add", key |-> key, skip_check |-> FALSE,
                       ret |-> r.ret]
           /\ UNCHANGED <<bf, calls, inserts, args, heap, result>>

NextOrch == \E key \in Keys : OrchAdd(key)

SpecOrch == InitOrch /\ [][NextOrch]_vars

\* All bits of the key are set in at least one owned sub-filter.
IsOrchMember(o, key) ==
    \E i \in 1..Len(o.filters) : IsMember(o.filters[i], key)

\* C6: no false negatives in the orchestrators.  The key of an add call
\* tests as a member of the orchestrator, being a member of at least one
\* owned sub-filter, when the call returns; and across every add call that
\* changes the orchestrator, appending a sub-filter or not, each key that
\* tested as a member before still does so afterwards.  Together: every key
\* previously passed to add tests as a member in every later state.
C6_OrchNoFalseNegatives ==
    [][/\ last'.op = "add"
          => Orch_contains(orch', last'.key) /\ IsOrchMember(orch', last'.key)
       /\ orch' # orch
          => \A key \in Keys :
                Orch_contains(orch, key)
                   => Orch_contains(orch', key) /\ IsOrchMember(orch', key)]_vars

\* A key that sits in an older sub-filter only still tests as a member after
\* a sub-filter was appended.
C6_Witness ==
    /\ Len(orch.filters) >= 2
    /\ \E key \in Keys :
          /\ IsMember(orch.filters[1], key)
          /\ ~IsMember(orch.filters[Len(orch.filters)], key)
          /\ Orch_contains(orch, key)

\* C7: orchestrator add with duplicate detection.  The call returns True and
\* leaves the orchestrator (the list, every sub-filter's bits and count) as
\* it was when the key is a member of some owned sub-filter; otherwise it
\* returns False, the total count grows by exactly one, at most one
\* sub-filter is appended, and every sub-filter but the last of the new list
\* is as it was.
C7_OrchAdd ==
    [][last'.op = "add"
       => IF IsOrchMember(orch, last'.key)
          THEN last'.ret = "True" /\ orch' = orch
          ELSE /\ last'.ret = "False"
               /\ Orch_len(orch') = Orch_len(orch) + 1
               /\ Len(orch'.filters) \in {Len(orch.filters), Len(orch.filters) + 1}
               /\ \A i \in 1..(Len(orch'.filters) - 1) :
                      i <= Len(orch.filters) /\ orch'.filters[i] = orch.filters[i]
               /\ [orch' EXCEPT !.filters = orch.filters] = orch]_vars

\* An add call returned True for a key that is a member of an older
\* sub-filter and not of the newest one.
C7_Witness ==
    /\ last.op = "add" /\ last.ret = "True"
    /\ Len(orch.filters) >= 2
    /\ ~IsMember(orch.filters[Len(orch.filters)], last.key)

\* C8: the orchestrators prevent overflow.  Every sub-filter has
\* count <= capacity, every sub-filter but the last has count = capacity, the
\* last has count >= 1, and no add call has raised capacity-exceeded.
C8_NoOverflow ==
    /\ \A i \in 1..Len(orch.filters) :
          /\ orch.filters[i].count <= orch.filters[i].capacity
          /\ i < Len(orch.filters)
                => orch.filters[i].count = orch.filters[i].capacity
          /\ i = Len(orch.filters) => orch.filters[i].count >= 1
    /\ ~raised
    /\ last.ret # "IndexError"

\* An add call found the last sub-filter full and appended one.
C8_Witness ==
    /\ last.op = "add" /\ last.ret = "False"
    /\ Len(orch.filters) >= 2
    /\ orch.filters[Len(orch.filters)].count = 1
    /\ orch.filters[Len(orch.filters) - 1].count
          = orch.filters[Len(orch.filters) - 1].capacity


MaxScalableCalls == 252
MaxDynamicCalls == 30

\* ScalableBloomFilter(initial_capacity=100, error_rate=0.001,
\*                     mode=SMALL_SET_GROWTH), the defaults.
InitScalableDoc ==
    /\ bf = Absent
    /\ orch = ScalableBloomFilter_init(100, <<1, 1000>>, SMALL_SET_GROWTH)
    /\ InitObservers

\* DynamicBloomFilter(base_capacity, max_capacity, error_rate)
InitDynamicDoc ==
    /\ bf = Absent
    /\ orch \in {DynamicBloomFilter_init(c, m * c, <<6, 10>>) :
                    c \in {1, 2, 3, 10}, m \in {1, 2}}
    /\ InitObservers

\* orch.add(key) for a key whose membership scan answers `member`
DocAdd(member, maxCalls) ==
    /\ calls < maxCalls
    /\ orch.filters = <<>> => ~member
    /\ LET r == IF orch.class = "ScalableBloomFilter"
                THEN ScalableBloomFilter_add_given(orch, OpaqueKey, member)
                ELSE DynamicBloomFilter_add_given(orch, OpaqueKey, member)
       IN  /\ orch' = r.orch
           /\ raised' = (raised \/ r.ret = "IndexError")
           /\ last' = [op |-> "add", key |-> OpaqueKey, skip_check |-> FALSE,
                       ret |-> r.ret]
           /\ calls' = calls + 1
           /\ inserts' = IF r.ret = "False" THEN inserts + 1 ELSE inserts
           /\ UNCHANGED <<bf, args, heap, result>>

NextScalableDoc == \E member \in BOOLEAN : DocAdd(member, MaxScalableCalls)

NextDynamicDoc == \E member \in BOOLEAN : DocAdd(member, MaxDynamicCalls)

SpecScalableDoc == InitScalableDoc /\ [][NextScalableDoc]_vars

SpecDynamicDoc == InitDynamicDoc /\ [][NextDynamicDoc]_vars

\* C9: a ScalableBloomFilter with initial_capacity = 100 and growth factor 2
\* that has received 250 inserts owns at least 2 sub-filters and its total
\* capacity exceeds 250; and len(sbf) is at most the number of add calls made.
C9_ScalableScenario ==
    /\ (/\ orch.initial_capacity = 100
        /\ orch.scale = 2
        /\ inserts = 250)
          => /\ Len(orch.filters) >= 2
             /\ Orch_capacity(orch) > 250
    /\ Orch_len(orch) <= calls

\* The 250th insert has been made, among more than 250 add calls.
C9_Witness ==
    /\ orch.initial_capacity = 100 /\ orch.scale = 2
    /\ inserts = 250 /\ calls > 250
    /\ last.ret = "False"

\* C10: the shape of a DynamicBloomFilter after n inserts: ceil(n /
\* base_capacity) sub-filters, each of capacity base_capacity and error rate
\* individual_error_rate, all but the last with count = base_capacity; with
\* base_capacity = 10 and n = 25, three sub-filters with counts 10, 10, 5.
C10_DynamicShape ==
    /\ Len(orch.filters) = CeilDiv(inserts, orch.base_capacity)
    /\ \A i \in 1..Len(orch.filters) :
          /\ orch.filters[i].capacity = orch.base_capacity
          /\ orch.filters[i].error_rate = orch.individual_error_rate
          /\ i < Len(orch.filters)
                => orch.filters[i].count = orch.base_capacity
    /\ (orch.base_capacity = 10 /\ inserts = 25)
          => [i \in 1..Len(orch.filters) |-> orch.filters[i].count]
                = <<10, 10, 5>>

\* Twenty-five inserts into a filter of base_capacity 10.
C10_Witness ==
    /\ orch.base_capacity = 10
    /\ inserts = 25
    /\ Len(orch.filters) = 3

\* ------------------------------- the module doctest of DynamicBloomFilter

\* sbf = DynamicBloomFilter(); count = 10000; sbf.add(i) for i in 0..count-1.
\* The keys are distinct, so a call answers True only on a false positive of
\* its membership scan; at most MaxFalsePositives of the calls do.
MaxDefaultCalls == 10000
MaxFalsePositives == 1

\* DynamicBloomFilter(), the defaults: base_capacity=100,
\* max_capacity=1000000, error_rate=0.001.
InitDynamicDefault ==
    /\ bf = Absent
    /\ orch = DynamicBloomFilter_init(100, 1000000, <<1, 1000>>)
    /\ InitObservers

NextDynamicDefault ==
    \E member \in BOOLEAN :
        /\ member => calls - inserts < MaxFalsePositives
        /\ DocAdd(member, MaxDefaultCalls)

SpecDynamicDefault == InitDynamicDefault /\ [][NextDynamicDefault]_vars

\* C11: after the 10000 add calls of the doctest on a default
\* DynamicBloomFilter, the total capacity is strictly greater than 10000 and
\* len(sbf) is at most 10000.
C11_DefaultDoctest ==
    calls = 10000 => Orch_capacity(orch) > 10000 /\ Orch_len(orch) <= 10000

\* ---------------------------------------------------- the constructors

\* The arguments a filter is constructed with: capacity (initial_capacity,
\* base_capacity) and error_rate, valid and invalid.
CtorCapacities == {-1, 0, 1, 2}
CtorErrorRates == {<<-1, 10>>, <<0, 1>>, <<3, 10>>, <<6, 10>>, <<1, 1>>, <<3, 2>>}
Classes == {"BloomFilter", "ScalableBloomFilter", "DynamicBloomFilter"}

\* The max_capacity the DynamicBloomFilter is constructed with.
CtorMaxCapacity == 2

InitConstruct ==
    /\ bf = Absent
    /\ orch = Absent
    /\ raised = FALSE
    /\ last = NoCall
    /\ calls = 0
    /\ inserts = 0
    /\ args \in [class : Classes, capacity : CtorCapacities,
                 error_rate : CtorErrorRates]
    /\ heap = EmptyHeap
    /\ result = None

\* The exception the constructor of args.class raises, "None" when it
\* returns.
Construct_exception(a) ==
    IF a.class = "BloomFilter"
    THEN IF BloomFilter_init_raises(a.capacity, a.error_rate)
         THEN "ValueError" ELSE "None"
    ELSE IF a.class = "ScalableBloomFilter"
    THEN IF ScalableBloomFilter_init_raises(a.capacity, a.error_rate,
                                            SMALL_SET_GROWTH)
         THEN "ValueError" ELSE "None"
    ELSE DynamicBloomFilter_init_exception(a.capacity, CtorMaxCapacity,
                                           a.error_rate)

\* BloomFilter(capacity, error_rate), ScalableBloomFilter(capacity,
\* error_rate) or DynamicBloomFilter(capacity, CtorMaxCapacity, error_rate)
Construct ==
    /\ last.op = "none"
    /\ LET e == Construct_exception(args)
       IN  /\ last' = [op |-> "__init__", key |-> OpaqueKey,
                       skip_check |-> FALSE, ret |-> e]
           /\ bf' = IF e = "None" /\ args.class = "BloomFilter"
                    THEN BloomFilter_init(args.capacity, args.error_rate)
                    ELSE Absent
           /\ orch' = IF e # "None" \/ args.class = "BloomFilter" THEN Absent
                      ELSE IF args.class = "ScalableBloomFilter"
                      THEN ScalableBloomFilter_init(args.capacity,
                               args.error_rate, SMALL_SET_GROWTH)
                      ELSE DynamicBloomFilter_init(args.capacity,
                               CtorMaxCapacity, args.error_rate)
    /\ UNCHANGED <<raised, calls, inserts, args, heap, result>>

\* The first add call on the object constructed.
FirstAdd(key) ==
    /\ last.op = "__init__"
    /\ last.ret = "None"
    /\ LET r == IF args.class = "BloomFilter"
                THEN BloomFilter_add(bf, key, FALSE)
                ELSE Orch_add(orch, key)
       IN  /\ bf' = IF args.class = "BloomFilter" THEN r.filter ELSE bf
           /\ orch' = IF args.class = "BloomFilter" THEN orch ELSE r.orch
           /\ last' = [op |-> "add", key |-> key, skip_check |-> FALSE,
                       ret |-> r.ret]
    /\ UNCHANGED <<raised, calls, inserts, args, heap, result>>

NextConstruct == Construct \/ \E key \in Keys : FirstAdd(key)

SpecConstruct == InitConstruct /\ [][NextConstruct]_vars

\* C17: invalid parameters are rejected at construction.  A constructor
\* given capacity <= 0 or an error_rate outside the open interval (0, 1)
\* raises the invalid-parameter error (ValueError) itself.
C17_RejectedAtConstruction ==
    (/\ last.op = "__init__"
     /\ \/ args.capacity <= 0
        \/ ~(RatLt(RatZero, args.error_rate) /\ RatLt(args.error_rate, RatOne)))
        => last.ret = "ValueError"

\* ------------------------------------------- BloomFilter.tofile, fromfile

\* calcsize(FILE_FMT) for FILE_FMT = '<dQQQQ'.
HeaderLen == 40

\* bitarray.tobytes(): ceil(len / 8) bytes, bit i of the array is bit i % 8
\* of byte i \div 8 (little-endian), the pad bits are 0.
tobytes(bitarray) ==
    [nbytes |-> CeilDiv(bitarray.len, 8), ones |-> bitarray.ones]

\* bitarray(endian='little').frombytes(bytes): eight bits for every byte.
frombytes(bytes) ==
    [len |-> 8 * bytes.nbytes, ones |-> bytes.ones]

\* f.read(k) of the payload: its first k bytes, all of it for k < 0.
read(bytes, k) ==
    IF k < 0 \/ k >= bytes.nbytes THEN bytes
    ELSE [nbytes |-> k, ones |-> {i \in bytes.ones : i < 8 * k}]

\* BloomFilter.tofile: the header packed with FILE_FMT, then the bytes of
\* the bit vector.
BloomFilter_tofile(f) ==
    [header |-> <<f.error_rate, f.num_slices, f.bits_per_slice, f.capacity,
                  f.count>>,
     payload |-> tobytes(f.bitarray)]

\* BloomFilter.fromfile(f, n): the filter returned, or the ValueError.
BloomFilter_fromfile(file, n) ==
    IF 0 < n /\ n < HeaderLen
    THEN [ret |-> "ValueError", filter |-> None]
    ELSE LET h == file.header
             filter == BloomFilter_setup(h[1], h[2], h[3], h[4], h[5])
             bitarray == frombytes(read(file.payload,
                                        IF n > 0 THEN n - HeaderLen ELSE -1))
         IN  IF filter.num_bits # bitarray.len
                /\ filter.num_bits + (8 - (filter.num_bits % 8)) # bitarray.len
             THEN [ret |-> "ValueError", filter |-> None]
             ELSE [ret |-> "None",
                   filter |-> [error_rate |-> filter.error_rate,
                               num_slices |-> filter.num_slices,
                               bits_per_slice |-> filter.bits_per_slice,
                               capacity |-> filter.capacity,
                               count |-> filter.count,
                               num_bits |-> filter.num_bits,
                               bitarray |-> bitarray]]

\* The filters written: total_bits 2, 6 and 8.
SerialConfigs == {<<1, <<6, 10>>>>, <<2, <<3, 10>>>>, <<3, <<3, 10>>>>}

\* The payload of a file is cut or extended by at most MaxExtraBytes bytes.
MaxExtraBytes == 1

\* The values of fromfile's argument n.
ReadLimits == {-1, HeaderLen - 1, HeaderLen, HeaderLen + 1}

InitSerial ==
    /\ bf \in {BloomFilter_init(c[1], c[2]) : c \in SerialConfigs}
    /\ orch = Absent
    /\ raised = FALSE
    /\ last = NoCall
    /\ calls = 0
    /\ inserts = 0
    /\ args = NoArgs
    /\ heap = EmptyHeap
    /\ result = None

\* bf.add(key) before the filter is written
SerialAdd(key) ==
    /\ args = NoArgs
    /\ Add(key, FALSE)

\* bf.tofile(f)
ToFile ==
    /\ args = NoArgs
    /\ args' = BloomFilter_tofile(bf)
    /\ last' = [op |-> "tofile", key |-> OpaqueKey, skip_check |-> FALSE,
                ret |-> "None"]
    /\ UNCHANGED <<bf, orch, raised, calls, inserts, heap, result>>

\* The file is damaged: its payload loses its last byte (delta = -1) or
\* gains a zero byte (delta = 1).
Damage(delta) ==
    /\ last.op \in {"tofile", "damage"}
    /\ LET k == args.payload.nbytes + delta
           whole == CeilDiv(bf.num_bits, 8)
       IN  /\ k >= 0
           /\ k >= whole - MaxExtraBytes
           /\ k <= whole + MaxExtraBytes
           /\ args' = [args EXCEPT !.payload =
                          [nbytes |-> k,
                           ones |-> {i \in args.payload.ones : i < 8 * k}]]
    /\ last' = [op |-> "damage", key |-> OpaqueKey, skip_check |-> FALSE,
                ret |-> "None"]
    /\ UNCHANGED <<bf, orch, raised, calls, inserts, heap, result>>

\* result = BloomFilter.fromfile(f, n)
FromFile(n) ==
    /\ last.op \in {"tofile", "damage"}
    /\ LET r == BloomFilter_fromfile(args, n)
       IN  /\ result' = r.filter
           /\ last' = [op |-> "fromfile", key |-> OpaqueKey,
                       skip_check |-> FALSE, ret |-> r.ret, n |-> n]
    /\ UNCHANGED <<bf, orch, raised, calls, inserts, args, heap>>

NextSerial ==
    \/ \E key \in Keys : SerialAdd(key)
    \/ ToFile
    \/ \E delta \in {-1, 1} : Damage(delta)
    \/ \E n \in ReadLimits : FromFile(n)

SpecSerial == InitSerial /\ [][NextSerial]_vars

\* C15: serialization round trip.  fromfile(tofile(f)) has the error_rate,
\* slice count, bits_per_slice, capacity and count of f and an identical bit
\* vector: the same length total_bits and the same bits.
C15_RoundTrip ==
    (last.op = "fromfile" /\ last.n = -1 /\ args = BloomFilter_tofile(bf))
        => /\ last.ret = "None"
           /\ result.error_rate = bf.error_rate
           /\ result.num_slices = bf.num_slices
           /\ result.bits_per_slice = bf.bits_per_slice
           /\ result.capacity = bf.capacity
           /\ result.count = bf.count
           /\ result.bitarray.len = bf.num_bits
           /\ result.bitarray = bf.bitarray

\* C16: corrupt-data detection.  fromfile, reading the whole payload, raises
\* the corrupt-data error exactly when the payload is not ceil(total_bits / 8)
\* bytes long, also when total_bits is a multiple of 8.
C16_CorruptData ==
    (last.op = "fromfile" /\ last.n = -1)
        => ((last.ret = "ValueError")
               <=> (args.payload.nbytes # CeilDiv(bf.num_bits, 8)))

\* ------------------------------------------- union and intersection

\* The objects of a set operation are held in heap by identity.  An
\* identity is <<owner, i>>: <<owner, 0>> is the filter or orchestrator
\* named owner, <<owner, i>> for i >= 1 a sub-filter allocated for it.  A
\* DynamicBloomFilter object holds the identities of its sub-filters.
Ref(owner, i) == <<owner, i>>
NoRef == Ref("none", 0)
Tmp == Ref("tmp", 0)

\* The object is bound to the identity.
Store(h, ref, obj) == (ref :> obj) @@ h

IsBloomFilter(obj) == "bitarray" \in DOMAIN obj

\* An orchestrator with its sub-filters in place of their identities.
Deref(h, ref) ==
    [h[ref] EXCEPT !.filters = [i \in 1..Len(h[ref].filters) |->
                                   h[h[ref].filters[i]]]]

\* bool(filter): BloomFilter defines __len__ and no __bool__.
Truthy(f) == f.count # 0

\* Mutant of bitor: the bits of the left operand alone.
bitor_left(a, b) == [len |-> a.len, ones |-> a.ones]

\* bitarray | bitarray and bitarray & bitarray, for equal lengths.
bitor(a, b) == [len |-> a.len, ones |-> a.ones \cup b.ones]
bitand(a, b) == [len |-> a.len, ones |-> a.ones \cap b.ones]

\* The count a union or an intersection gives its result:
\* int(log(1 - X/m) / (num_slices * log(1 - 1/m))) for X set bits of m, and
\* m when a logarithm raises (X = m or m = 1).
EstimateCount(bitarray, num_slices) ==
    LET m == bitarray.len
        X == Cardinality(bitarray.ones)
    IN  IF m = 1 \/ X = m THEN m
        ELSE LnInv(<<m - X, m>>) \div (num_slices * LnInv(<<m - 1, m>>))

\* BloomFilter.copy.
BloomFilter_copy(f) ==
    [BloomFilter_init(f.capacity, f.error_rate) EXCEPT
        !.bitarray = f.bitarray, !.count = f.count]

\* Mutant of BloomFilter_mismatch: only the capacities are compared.
BloomFilter_mismatch_capacity(a, b) == a.capacity # b.capacity

\* The test BloomFilter.union and intersection raise ValueError on.
BloomFilter_mismatch(a, b) ==
    a.capacity # b.capacity \/ ~RatEq(a.error_rate, b.error_rate)

\* The filter new_bloom once its bitarray is replaced and its count is
\* estimated from it.
Recount(new_bloom, bitarray) ==
    [new_bloom EXCEPT !.bitarray = bitarray,
                      !.count = EstimateCount(bitarray, new_bloom.num_slices)]

\* new_bloom.bitarray | other.bitarray, and &, written into new_bloom.
UnionInto(new_bloom, other) ==
    Recount(new_bloom, bitor(new_bloom.bitarray, other.bitarray))
IntersectionInto(new_bloom, other) ==
    Recount(new_bloom, bitand(new_bloom.bitarray, other.bitarray))

\* Mutant of BloomFilter_union: the union is computed into self.
BloomFilter_union_inplace(h, self, other, new) ==
    IF BloomFilter_mismatch(h[self], h[other])
    THEN [heap |-> h, exc |-> "ValueError", ref |-> NoRef]
    ELSE [heap |-> Store(h, self, UnionInto(h[self], h[other])),
          exc |-> "None",
          ref |-> self]

\* BloomFilter.union: self | other, the result allocated as new.
BloomFilter_union(h, self, other, new) ==
    IF BloomFilter_mismatch(h[self], h[other])
    THEN [heap |-> h, exc |-> "ValueError", ref |-> NoRef]
    ELSE [heap |-> Store(h, new, UnionInto(BloomFilter_copy(h[self]),
                                           h[other])),
          exc |-> "None",
          ref |-> new]

\* BloomFilter.intersection: self & other, the result allocated as new.
BloomFilter_intersection(h, self, other, new) ==
    IF BloomFilter_mismatch(h[self], h[other])
    THEN [heap |-> h, exc |-> "ValueError", ref |-> NoRef]
    ELSE [heap |-> Store(h, new, IntersectionInto(BloomFilter_copy(h[self]),
                                                  h[other])),
          exc |-> "None",
          ref |-> new]

\* The test DynamicBloomFilter.union and intersection raise ValueError on.
DynamicBloomFilter_mismatch(a, b) ==
    \/ a.base_capacity # b.base_capacity
    \/ ~RatEq(a.individual_error_rate, b.individual_error_rate)

\* Mutant of other_filter_index: the slots are scanned from the first on.
other_filter_index_forward(other_filters, j) == j + 1

\* other_filter_index = len(other_filters) - 1 - j, as a position from 1.
other_filter_index(other_filters, j) == Len(other_filters) - j

\* union_filter = my_filters[i] | other_filters[other_filter_index], the
\* object.
union_filter(h, my, slot) == BloomFilter_union(h, my, slot, Tmp).heap[Tmp]

\* Mutant of union_mate: the slot keeps the filter it held.
union_mate_keep(h, other_filters, index, merged, new) ==
    [heap |-> h, filters |-> other_filters]

\* other_filters[other_filter_index] = union_filter: the object is a new one,
\* allocated for new at the position it takes.
union_mate(h, other_filters, index, merged, new) ==
    [heap |-> Store(h, Ref(new, index), merged),
     filters |-> [other_filters EXCEPT ![index] = Ref(new, index)]]

\* DynamicBloomFilter.union, the loop over j for the sub-filter `my` of
\* self: the first slot tried whose union with `my` has
\* count < base_capacity is replaced by that union; when none is, `my`
\* itself is appended.
RECURSIVE union_inner(_, _, _, _, _, _)
union_inner(h, my, other_filters, j, base_capacity, new) ==
    IF j >= Len(other_filters)
    THEN [heap |-> h, filters |-> Append(other_filters, my)]
    ELSE IF union_filter(h, my,
                other_filters[other_filter_index(other_filters, j)]).count
               < base_capacity
    THEN union_mate(h, other_filters, other_filter_index(other_filters, j),
             union_filter(h, my,
                 other_filters[other_filter_index(other_filters, j)]),
             new)
    ELSE union_inner(h, my, other_filters, j + 1, base_capacity, new)

\* DynamicBloomFilter.union, the loop over self's sub-filters from the i-th;
\* r holds the heap and the list other_filters after the sub-filters before.
RECURSIVE union_outer(_, _, _, _, _)
union_outer(r, my_filters, i, base_capacity, new) ==
    IF i > Len(my_filters) THEN r
    ELSE union_outer(union_inner(r.heap, my_filters[i], r.filters, 0,
                                 base_capacity, new),
                     my_filters, i + 1, base_capacity, new)

\* The copies of other's sub-filters, allocated for new from the j-th on.
RECURSIVE copy_filters(_, _, _, _)
copy_filters(h, filters, j, new) ==
    IF j > Len(filters) THEN h
    ELSE copy_filters(Store(h, Ref(new, j), BloomFilter_copy(h[filters[j]])),
                      filters, j + 1, new)

\* DynamicBloomFilter.union of the orchestrators named self and other, the
\* result allocated under the name new.
DynamicBloomFilter_union(h, self, other, new) ==
    LET a == h[Ref(self, 0)]
        b == h[Ref(other, 0)]
    IN  IF DynamicBloomFilter_mismatch(a, b)
        THEN [heap |-> h, exc |-> "ValueError", ref |-> NoRef]
        ELSE LET new_bloom == DynamicBloomFilter_init(a.base_capacity,
                                  a.max_capacity, a.max_error_rate)
                 r == union_outer(
                          [heap |-> copy_filters(h, b.filters, 1, new),
                           filters |-> [j \in 1..Len(b.filters) |->
                                           Ref(new, j)]],
                          a.filters, 1, a.base_capacity, new)
             IN  [heap |-> Store(r.heap, Ref(new, 0),
                                 [new_bloom EXCEPT !.filters = r.filters]),
                  exc |-> "None",
                  ref |-> Ref(new, 0)]

\* DynamicBloomFilter.intersection, the loop over other's sub-filters from
\* the j-th: bloom = bloom or (bloom_filter and other_filter), on the
\* identities; Python's `or` and `and` return one of their operands.
RECURSIVE intersection_inner(_, _, _, _, _)
intersection_inner(h, bloom, bloom_filter, other_filters, j) ==
    IF j > Len(other_filters) THEN bloom
    ELSE intersection_inner(h,
             IF Truthy(h[bloom]) THEN bloom
             ELSE IF Truthy(h[bloom_filter]) THEN other_filters[j]
             ELSE bloom_filter,
             bloom_filter, other_filters, j + 1)

\* DynamicBloomFilter.intersection, the loop over self's sub-filters from
\* the i-th; filters is new_bloom.filters so far.
RECURSIVE intersection_outer(_, _, _, _, _, _, _)
intersection_outer(h, my_filters, i, other_filters, filters, fresh, new) ==
    IF i > Len(my_filters) THEN [heap |-> h, filters |-> filters]
    ELSE LET h1 == Store(h, Ref(new, i), fresh)
             bloom == intersection_inner(h1, Ref(new, i), my_filters[i],
                                         other_filters, 1)
         IN  intersection_outer(IF bloom = Ref(new, i) THEN h1 ELSE h,
                                my_filters, i + 1, other_filters,
                                Append(filters, bloom), fresh, new)

\* DynamicBloomFilter.intersection of the orchestrators named self and
\* other, the result allocated under the name new.
DynamicBloomFilter_intersection(h, self, other, new) ==
    LET a == h[Ref(self, 0)]
        b == h[Ref(other, 0)]
    IN  IF DynamicBloomFilter_mismatch(a, b)
        THEN [heap |-> h, exc |-> "ValueError", ref |-> NoRef]
        ELSE LET new_bloom == DynamicBloomFilter_init(a.base_capacity,
                                  a.max_capacity, a.max_error_rate)
                 r == intersection_outer(h, a.filters, 1, b.filters, <<>>,
                          BloomFilter_init(a.base_capacity,
                                           a.individual_error_rate),
                          new)
             IN  [heap |-> Store(r.heap, Ref(new, 0),
                                 [new_bloom EXCEPT !.filters = r.filters]),
                  exc |-> "None",
                  ref |-> Ref(new, 0)]

\* Two filters, or two orchestrators, named self and other, are filled
\* and then combined, in either order of the operands.
MaxOperandInserts == 4
SelfFilterConfig == <<2, <<3, 10>>>>
OtherFilterConfigs == {<<2, <<3, 10>>>>, <<1, <<3, 10>>>>, <<2, <<6, 10>>>>}
SelfDynamicConfig == <<2, 4, <<6, 10>>>>
OtherDynamicConfigs ==
    {<<2, 4, <<6, 10>>>>, <<1, 2, <<6, 10>>>>, <<2, 2, <<6, 10>>>>}
Operands == {"self", "other"}

\* The keys the operands are filled with, as digest words.
OperandKeys == {<<0, 0>>, <<0, 1>>, <<1, 0>>, <<1, 1>>}

InitSetOps ==
    /\ bf = Absent
    /\ orch = Absent
    /\ raised = FALSE
    /\ last = NoCall
    /\ calls = 0
    /\ inserts = 0
    /\ args = NoArgs
    /\ result = NoRef
    /\ \/ \E c \in OtherFilterConfigs :
             heap = (Ref("self", 0) :> BloomFilter_init(SelfFilterConfig[1],
                                                        SelfFilterConfig[2]))
                    @@ (Ref("other", 0) :> BloomFilter_init(c[1], c[2]))
       \/ \E c \in OtherDynamicConfigs :
             heap = (Ref("self", 0) :>
                        DynamicBloomFilter_init(SelfDynamicConfig[1],
                                                SelfDynamicConfig[2],
                                                SelfDynamicConfig[3]))
                    @@ (Ref("other", 0) :>
                           DynamicBloomFilter_init(c[1], c[2], c[3]))

\* The heap after owner.add(key) left the orchestrator as d: its sub-filters
\* are allocated under its name, in the order of its list.
StoreOrch(h, owner, d) ==
    [id \in DOMAIN h \cup {Ref(owner, i) : i \in 1..Len(d.filters)} |->
        IF id = Ref(owner, 0)
        THEN [d EXCEPT !.filters = [i \in 1..Len(d.filters) |-> Ref(owner, i)]]
        ELSE IF id[1] = owner THEN d.filters[id[2]]
        ELSE h[id]]

\* owner.add(key), before the operands are combined; inserts counts the
\* keys the two operands took.
OperandAdd(owner, key) ==
    /\ last.op = "none"
    /\ inserts < MaxOperandInserts
    /\ LET r == IF IsBloomFilter(heap[Ref(owner, 0)])
                THEN BloomFilter_add(heap[Ref(owner, 0)], key, FALSE)
                ELSE DynamicBloomFilter_add(Deref(heap, Ref(owner, 0)), key)
       IN  /\ r.ret \in {"True", "False"}
           /\ heap' = IF IsBloomFilter(heap[Ref(owner, 0)])
                      THEN [heap EXCEPT ![Ref(owner, 0)] = r.filter]
                      ELSE StoreOrch(heap, owner, r.orch)
           /\ inserts' = IF r.ret = "False" THEN inserts + 1 ELSE inserts
    /\ UNCHANGED <<bf, orch, raised, last, calls, args, result>>

\* The observers after x.union(y) or x.intersection(y) ended as r.
Combined(op, x, y, r) ==
    /\ heap' = r.heap
    /\ result' = r.ref
    /\ raised' = (r.exc # "None")
    /\ last' = [op |-> op, key |-> OpaqueKey, skip_check |-> FALSE,
                ret |-> r.exc, self |-> x, other |-> y]
    /\ UNCHANGED <<bf, orch, calls, inserts, args>>

\* x.union(y)
Union(x, y) ==
    /\ last.op = "none"
    /\ Combined("union", x, y,
           IF IsBloomFilter(heap[Ref(x, 0)])
           THEN BloomFilter_union(heap, Ref(x, 0), Ref(y, 0), Ref("result", 0))
           ELSE DynamicBloomFilter_union(heap, x, y, "result"))

\* x.intersection(y)
Intersection(x, y) ==
    /\ last.op = "none"
    /\ Combined("intersection", x, y,
           IF IsBloomFilter(heap[Ref(x, 0)])
           THEN BloomFilter_intersection(heap, Ref(x, 0), Ref(y, 0),
                                         Ref("result", 0))
           ELSE DynamicBloomFilter_intersection(heap, x, y, "result"))

NextSetOps ==
    \/ \E owner \in Operands, key \in OperandKeys : OperandAdd(owner, key)
    \/ \E x \in Operands : Union(x, CHOOSE y \in Operands : y # x)
    \/ \E x \in Operands : Intersection(x, CHOOSE y \in Operands : y # x)

SpecSetOps == InitSetOps /\ [][NextSetOps]_vars

\* The operands of the operation last called, the object it returned, and
\* whether it returned one.
SelfOperand == heap[Ref(last.self, 0)]
OtherOperand == heap[Ref(last.other, 0)]
Combining == last.op \in {"union", "intersection"}
Returned == Combining /\ last.ret = "None"

\* C12: union and intersection raise the mismatched-parameters error
\* exactly when the operands differ in capacity or error_rate (BloomFilter),
\* or in base_capacity or individual_error_rate (DynamicBloomFilter); when
\* they raise, no result is produced and no object is changed.
C12_MismatchRaises ==
    [][last'.op \in {"union", "intersection"} =>
          LET a == heap[Ref(last'.self, 0)]
              b == heap[Ref(last'.other, 0)]
              differ == IF IsBloomFilter(a)
                        THEN \/ a.capacity # b.capacity
                             \/ ~RatEq(a.error_rate, b.error_rate)
                        ELSE \/ a.base_capacity # b.base_capacity
                             \/ ~RatEq(a.individual_error_rate,
                                       b.individual_error_rate)
          IN  /\ (last'.ret = "ValueError") <=> differ
              /\ last'.ret = "ValueError" => result' = NoRef /\ heap' = heap
              /\ last'.ret # "ValueError" =>
                     last'.ret = "None" /\ result' \in DOMAIN heap']_vars

\* Operands that differ in error_rate alone were combined, and the call
\* raised.
C12_Witness ==
    /\ Combining
    /\ last.ret = "ValueError"
    /\ result = NoRef
    /\ IsBloomFilter(SelfOperand)
    /\ SelfOperand.capacity = OtherOperand.capacity
    /\ SelfOperand.count > 0

\* C13: on BloomFilters a.union(b) and b.union(a) hold the same bits, the
\* bitwise OR of a's and b's, and a.intersection(b) and b.intersection(a)
\* hold the bitwise AND; the result keeps a's capacity, error_rate,
\* num_slices and bits_per_slice.
C13_BitsCommute ==
    [][/\ last'.op \in {"union", "intersection"}
       /\ last'.ret = "None"
       /\ IsBloomFilter(heap[Ref(last'.self, 0)])
       => LET a == heap[Ref(last'.self, 0)]
              b == heap[Ref(last'.other, 0)]
              r == heap'[result']
              swapped ==
                  IF last'.op = "union"
                  THEN BloomFilter_union(heap, Ref(last'.other, 0),
                                         Ref(last'.self, 0), Tmp).heap[Tmp]
                  ELSE BloomFilter_intersection(heap, Ref(last'.other, 0),
                                                Ref(last'.self, 0),
                                                Tmp).heap[Tmp]
              bits == IF last'.op = "union"
                      THEN a.bitarray.ones \cup b.bitarray.ones
                      ELSE a.bitarray.ones \cap b.bitarray.ones
          IN  /\ r.bitarray = [len |-> a.bitarray.len, ones |-> bits]
              /\ swapped.bitarray = r.bitarray
              /\ r.capacity = a.capacity
              /\ RatEq(r.error_rate, a.error_rate)
              /\ r.num_slices = a.num_slices
              /\ r.bits_per_slice = a.bits_per_slice]_vars

\* Two BloomFilters holding different bits were united: the result holds
\* more bits than either.
C13_Witness ==
    /\ Returned
    /\ last.op = "union"
    /\ IsBloomFilter(SelfOperand)
    /\ heap[result].bitarray.ones # SelfOperand.bitarray.ones
    /\ heap[result].bitarray.ones # OtherOperand.bitarray.ones
    /\ heap[result].bitarray.ones =
           SelfOperand.bitarray.ones \cup OtherOperand.bitarray.ones

\* C14: union and intersection leave their inputs alone: when a call
\* returns, every object that existed before it (both operands and each of
\* their sub-filters, with list, bits and count) is as it was, and the
\* object returned is a new one, neither of the operands.
C14_InputsKept ==
    [][last'.op \in {"union", "intersection"} /\ last'.ret = "None"
       => /\ \A id \in DOMAIN heap : id \in DOMAIN heap' /\ heap'[id] = heap[id]
          /\ result' \in DOMAIN heap' \ DOMAIN heap
          /\ result' # Ref(last'.self, 0)
          /\ result' # Ref(last'.other, 0)]_vars

\* Two DynamicBloomFilters were united; the result holds a merged
\* sub-filter of its own next to a sub-filter of self, which it shares with
\* self.
C14_Witness ==
    /\ Returned
    /\ last.op = "union"
    /\ ~IsBloomFilter(SelfOperand)
    /\ \E i \in DOMAIN heap[result].filters :
           /\ heap[result].filters[i] = Ref("result", i)
           /\ i <= Len(OtherOperand.filters)
           /\ heap[heap[result].filters[i]] # heap[OtherOperand.filters[i]]
    /\ \E i \in DOMAIN heap[result].filters :
           heap[result].filters[i] \in
               {SelfOperand.filters[k] : k \in DOMAIN SelfOperand.filters}

\* C18: the result of DynamicBloomFilter.intersection owns one sub-filter
\* per sub-filter of self, in order, and the bits of the i-th are the OR,
\* over other's sub-filters o_j, of (self_i AND o_j), none when other has no
\* sub-filter.
C18_IntersectionBits ==
    Returned /\ last.op = "intersection" /\ ~IsBloomFilter(SelfOperand)
    => /\ Len(heap[result].filters) = Len(SelfOperand.filters)
       /\ \A i \in DOMAIN heap[result].filters :
              heap[heap[result].filters[i]].bitarray.ones =
                  UNION {heap[SelfOperand.filters[i]].bitarray.ones
                             \cap heap[OtherOperand.filters[j]].bitarray.ones :
                         j \in DOMAIN OtherOperand.filters}

\* The sub-filters of an orchestrator of the heap, as objects.
FiltersOf(ref) == Deref(heap, ref).filters

\* The list the union rule yields from the list slots for self's sub-filters
\* from the i-th on: the sub-filter s replaces, by its union with it, the
\* last slot t whose union s | t has count < base_capacity, and is appended
\* when there is none.
RECURSIVE ExpectedSlots(_, _, _, _)
ExpectedSlots(selfs, i, slots, base_capacity) ==
    IF i > Len(selfs) THEN slots
    ELSE LET mates == {t \in DOMAIN slots :
                          UnionInto(selfs[i], slots[t]).count < base_capacity}
         IN  IF mates = {}
             THEN ExpectedSlots(selfs, i + 1, Append(slots, selfs[i]),
                                base_capacity)
             ELSE LET t == CHOOSE t \in mates : \A u \in mates : u <= t
                  IN  ExpectedSlots(selfs, i + 1,
                          [slots EXCEPT ![t] = UnionInto(selfs[i], slots[t])],
                          base_capacity)

hexlify(bytes) == [ndigits |-> 2 * bytes.nbytes, ones |-> bytes.ones]
unhexlify(hex) == [nbytes |-> hex.ndigits \div 2, ones |-> hex.ones]

\* BloomFilter.__str__: the fields joined by ":".  On Python 3 hexlify
\* yields bytes, and str.join raises TypeError on them.
BloomFilter_str(f, python3) ==
    IF python3 THEN [exc |-> "TypeError"]
    ELSE [exc |-> "None",
          values |-> <<f.error_rate, f.num_slices, f.bits_per_slice,
                       f.capacity, f.count>>,
          endian |-> "little",
          hex |-> hexlify(tobytes(f.bitarray))]

\* BloomFilter.from_str.
BloomFilter_from_str(item) ==
    LET filter == BloomFilter_setup(item.values[1], item.values[2],
                                    item.values[3], item.values[4],
                                    item.values[5])
    IN  [error_rate |-> filter.error_rate,
         num_slices |-> filter.num_slices,
         bits_per_slice |-> filter.bits_per_slice,
         capacity |-> filter.capacity,
         count |-> filter.count,
         num_bits |-> filter.num_bits,
         bitarray |-> frombytes(unhexlify(item.hex))]

\* The fields an orchestrator writes before its sub-filters: scale, ratio,
\* initial_capacity, error_rate (ScalableBloomFilter), base_capacity,
\* max_capacity, max_error_rate (DynamicBloomFilter).
Orch_fields(o) ==
    IF o.class = "ScalableBloomFilter"
    THEN <<o.scale, o.ratio, o.initial_capacity, o.error_rate>>
    ELSE <<o.base_capacity, o.max_capacity, o.max_error_rate>>

\* cls() followed by _setup(*values): an orchestrator without sub-filters.
Orch_setup(class, values) ==
    IF class = "ScalableBloomFilter"
    THEN [class |-> "ScalableBloomFilter",
          scale |-> values[1],
          ratio |-> values[2],
          initial_capacity |-> values[3],
          error_rate |-> values[4],
          filters |-> <<>>]
    ELSE DynamicBloomFilter_init(values[1], values[2], values[3])

\* tofile of either orchestrator: the fields packed with FILE_FMT, the
\* number of sub-filters, and for one or more the table of the byte lengths
\* followed by every sub-filter's BloomFilter.tofile.
Orch_tofile(o) ==
    [class |-> o.class,
     header |-> Orch_fields(o),
     nfilters |-> Len(o.filters),
     filter_sizes |-> [i \in 1..Len(o.filters) |->
                          HeaderLen + tobytes(o.filters[i].bitarray).nbytes],
     filters |-> [i \in 1..Len(o.filters) |-> BloomFilter_tofile(o.filters[i])]]

\* The loop of fromfile over filter_lengths from the i-th on: each
\* sub-filter is read with BloomFilter.fromfile(f, fl), whose ValueError ends
\* the call.
RECURSIVE fromfile_loop(_, _, _)
fromfile_loop(file, i, filter) ==
    IF i > file.nfilters THEN [ret |-> "None", filter |-> filter]
    ELSE IF BloomFilter_fromfile(file.filters[i], file.filter_sizes[i]).ret
               # "None"
    THEN [ret |-> "ValueError", filter |-> Absent]
    ELSE fromfile_loop(file, i + 1,
             [filter EXCEPT !.filters =
                 Append(@, BloomFilter_fromfile(file.filters[i],
                                                file.filter_sizes[i]).filter)])

\* fromfile of either orchestrator.
Orch_fromfile(file) ==
    fromfile_loop(file, 1, Orch_setup(file.class, file.header))

\* __str__ of either orchestrator: the fields and the sub-filters' strings
\* joined by "|"; the TypeError of a sub-filter's __str__ ends the call.
Orch_str(o, python3) ==
    IF o.filters # <<>> /\ python3 THEN [exc |-> "TypeError"]
    ELSE [exc |-> "None",
          class |-> o.class,
          values |-> Orch_fields(o),
          filters |-> [i \in 1..Len(o.filters) |->
                          BloomFilter_str(o.filters[i], python3)]]

\* from_str of either orchestrator: `filters` is bound only when the last
\* field is not the empty string, and `filter.filters = filters` raises
\* UnboundLocalError when it is.
Orch_from_str(text) ==
    IF text.filters = <<>>
    THEN [ret |-> "UnboundLocalError", filter |-> Absent]
    ELSE [ret |-> "None",
          filter |-> [Orch_setup(text.class, text.values) EXCEPT
                         !.filters = [i \in 1..Len(text.filters) |->
                                         BloomFilter_from_str(text.filters[i])]]]

InitOrchSerial ==
    /\ bf = Absent
    /\ orch \in ScalableConfigs \cup DynamicConfigs
    /\ raised = FALSE
    /\ last = NoCall
    /\ calls = 0
    /\ inserts = 0
    /\ args = NoArgs
    /\ heap = EmptyHeap
    /\ result = Absent

\* orch.add(key), before the orchestrator is written.
OrchSerialAdd(key) ==
    /\ args = NoArgs
    /\ OrchAdd(key)

\* orch.tofile(f)
OrchToFile ==
    /\ args = NoArgs
    /\ args' = Orch_tofile(orch)
    /\ last' = [op |-> "tofile", key |-> OpaqueKey, skip_check |-> FALSE,
                ret |-> "None"]
    /\ UNCHANGED <<bf, orch, raised, calls, inserts, heap, result>>

\* result = cls.fromfile(f)
OrchFromFile ==
    /\ last.op = "tofile"
    /\ result' = Orch_fromfile(args).filter
    /\ last' = [op |-> "fromfile", key |-> OpaqueKey, skip_check |-> FALSE,
                ret |-> Orch_fromfile(args).ret]
    /\ UNCHANGED <<bf, orch, raised, calls, inserts, args, heap>>

\* s = str(orch), on Python 3 or on Python 2.
OrchStr(python3) ==
    /\ args = NoArgs
    /\ args' = Orch_str(orch, python3)
    /\ last' = [op |-> "__str__", key |-> OpaqueKey, skip_check |-> FALSE,
                ret |-> Orch_str(orch, python3).exc]
    /\ UNCHANGED <<bf, orch, raised, calls, inserts, heap, result>>

\* result = cls.from_str(s)
OrchFromStr ==
    /\ last.op = "__str__"
    /\ last.ret = "None"
    /\ result' = Orch_from_str(args).filter
    /\ last' = [op |-> "from_str", key |-> OpaqueKey, skip_check |-> FALSE,
                ret |-> Orch_from_str(args).ret]
    /\ UNCHANGED <<bf, orch, raised, calls, inserts, args, heap>>

NextOrchSerial ==
    \/ \E key \in Keys : OrchSerialAdd(key)
    \/ OrchToFile
    \/ OrchFromFile
    \/ \E python3 \in BOOLEAN : OrchStr(python3)
    \/ OrchFromStr

SpecOrchSerial == InitOrchSerial /\ [][NextOrchSerial]_vars

\* The parameters and the count of a sub-filter.
FilterParameters(f) ==
    <<f.error_rate, f.num_slices, f.bits_per_slice, f.capacity, f.count>>

\* C22: the orchestrator's serialization round trip.  For every state of a
\* ScalableBloomFilter or a DynamicBloomFilter, one without sub-filters
\* included, str() and tofile complete, and fromfile of the file and
\* from_str of the string complete and yield an orchestrator with the same
\* configuration fields and the same sub-filters in order, by their
\* parameters and counts.
C22_OrchRoundTrip ==
    /\ last.op = "__str__" => last.ret = "None"
    /\ last.op \in {"fromfile", "from_str"}
       => /\ last.ret = "None"
          /\ result.class = orch.class
          /\ Orch_fields(result) = Orch_fields(orch)
          /\ Len(result.filters) = Len(orch.filters)
          /\ \A i \in DOMAIN orch.filters :
                 FilterParameters(result.filters[i])
                     = FilterParameters(orch.filters[i])

\* ------------------------------- add calls after a union or intersection

\* The heap after DynamicBloomFilter.add turned the orchestrator named
\* owner, read as d, into r.orch: a sub-filter it appended is a new object,
\* and filter.add wrote to the last object of its list, whoever else holds
\* that object.
WriteBack(h, owner, d, r) ==
    IF Len(r.orch.filters) > Len(d.filters)
    THEN Store([h EXCEPT ![Ref(owner, 0)].filters =
                   Append(@, Ref(owner, Len(r.orch.filters)))],
               Ref(owner, Len(r.orch.filters)),
               r.orch.filters[Len(r.orch.filters)])
    ELSE IF d.filters = <<>> THEN h
    ELSE [h EXCEPT ![h[Ref(owner, 0)].filters[Len(d.filters)]] =
             r.orch.filters[Len(d.filters)]]

\* DynamicBloomFilter.add on the orchestrator named owner, whose list holds
\* object identities.
DynamicBloomFilter_add_heap(h, owner, key) ==
    [heap |-> WriteBack(h, owner, Deref(h, Ref(owner, 0)),
                        DynamicBloomFilter_add(Deref(h, Ref(owner, 0)), key)),
     ret |-> DynamicBloomFilter_add(Deref(h, Ref(owner, 0)), key).ret]

\* At most MaxLaterAdds add calls follow the operation.
MaxLaterAdds == 2

InitAfterOps ==
    /\ bf = Absent
    /\ orch = Absent
    /\ raised = FALSE
    /\ last = NoCall
    /\ calls = 0
    /\ inserts = 0
    /\ args = NoArgs
    /\ result = NoRef
    /\ heap = (Ref("self", 0) :>
                  DynamicBloomFilter_init(SelfDynamicConfig[1],
                                          SelfDynamicConfig[2],
                                          SelfDynamicConfig[3]))
              @@ (Ref("other", 0) :>
                     DynamicBloomFilter_init(SelfDynamicConfig[1],
                                             SelfDynamicConfig[2],
                                             SelfDynamicConfig[3]))

\* owner.add(key) after the operation returned `result`; owner is an operand
\* or the result.  The observer keeps the owner and the answer of the call.
LaterAdd(owner, key) ==
    /\ result # NoRef
    /\ calls < MaxLaterAdds
    /\ calls' = calls + 1
    /\ heap' = DynamicBloomFilter_add_heap(heap, owner, key).heap
    /\ last' = [op |-> "add", key |-> OpaqueKey, skip_check |-> FALSE,
                ret |-> DynamicBloomFilter_add_heap(heap, owner, key).ret,
                self |-> last.self, other |-> last.other, on |-> owner,
                from |-> IF last.op = "add" THEN last.from ELSE last.op]
    /\ raised' = (raised
                  \/ DynamicBloomFilter_add_heap(heap, owner, key).ret
                        \notin {"True", "False"})
    /\ UNCHANGED <<bf, orch, inserts, args, result>>

NextAfterOps ==
    \/ \E owner \in Operands, key \in OperandKeys : OperandAdd(owner, key)
    \/ \E x \in Operands : Union(x, CHOOSE y \in Operands : y # x)
    \/ \E x \in Operands : Intersection(x, CHOOSE y \in Operands : y # x)
    \/ \E owner \in Operands \cup {"result"}, key \in OperandKeys :
           LaterAdd(owner, key)

SpecAfterOps == InitAfterOps /\ [][NextAfterOps]_vars

\* The identities of the sub-filters of the orchestrator named owner.
FilterRefs(h, owner) ==
    {h[Ref(owner, 0)].filters[i] : i \in DOMAIN h[Ref(owner, 0)].filters}

\* C23: the orchestrator returned by DynamicBloomFilter.union or
\* intersection shares no sub-filter object with an operand; an add call on
\* the result leaves both operands as they were (sub-filters, bits and
\* counts), and an add call on an operand leaves the result as it was.
C23_NoAliasing ==
    [][/\ last'.op \in {"union", "intersection"} /\ last'.ret = "None"
          => FilterRefs(heap', "result")
                 \cap (FilterRefs(heap', "self") \cup FilterRefs(heap', "other"))
                 = {}
       /\ last'.op = "add" /\ last'.on = "result"
          => /\ Deref(heap', Ref("self", 0)) = Deref(heap, Ref("self", 0))
             /\ Deref(heap', Ref("other", 0)) = Deref(heap, Ref("other", 0))
       /\ last'.op = "add" /\ last'.on # "result"
          => Deref(heap', Ref("result", 0)) = Deref(heap, Ref("result", 0))]_vars

\* `result` was returned by union, and add calls may have followed.
FromUnion ==
    \/ last.op = "union" /\ last.ret = "None"
    \/ last.op = "add" /\ last.from = "union"

\* C24: when DynamicBloomFilter.union returns, every key that tests as a
\* member of self or of other tests as a member of the result; every
\* sub-filter of the result has count <= base_capacity, then and after the
\* add calls that follow; and no later add call on the result raises
\* capacity-exceeded.
C24_UnionKeepsMembers ==
    /\ last.op = "union" /\ last.ret = "None"
       => \A key \in Keys :
              \/ DynamicBloomFilter_contains(Deref(heap, Ref("self", 0)), key)
              \/ DynamicBloomFilter_contains(Deref(heap, Ref("other", 0)), key)
              => DynamicBloomFilter_contains(Deref(heap, result), key)
    /\ FromUnion
       => \A ref \in FilterRefs(heap, "result") :
              heap[ref].count <= heap[result].base_capacity
    /\ FromUnion /\ last.op = "add" /\ last.on = "result"
       => last.ret \in {"True", "False"}

\* Two non-empty orchestrators were united, a sub-filter of the result is a
\* union holding more bits than other's sub-filter in its place, and the
\* second add call after the union, on the result, stored a key.
C24_Witness ==
    /\ last.op = "add"
    /\ last.from = "union"
    /\ last.on = "result"
    /\ last.ret = "False"
    /\ calls >= 2
    /\ FilterRefs(heap, "self") # {}
    /\ \E i \in DOMAIN heap[Ref(last.other, 0)].filters :
           /\ i < Len(heap[result].filters)
           /\ heap[result].filters[i] = Ref("result", i)
           /\ ~(heap[Ref("result", i)].bitarray.ones
                   \subseteq heap[heap[Ref(last.other, 0)].filters[i]]
                                 .bitarray.ones)
====
